---------------------------- MODULE Spec2Model ----------------------------
(***************************************************************************)
(* A model of mcp-graphql: the schema-to-tool translation (type mapper,    *)
(* tool synthesizer, tool registry) of lib/graphql.ts and the execution    *)
(* path of the query-graphql tool handlers of index.ts.                    *)
(*                                                                         *)
(* The specifications share the variables:                                *)
(*   MapperSpec    one call of argumentToZodSchema on an argument          *)
(*   RegistrySpec  createGraphQLHandler, loadTools reloads and lookups     *)
(*   ExecSpec      calls of the query-graphql handlers                     *)
(*   StartupSpec   createGraphQLHandler from the schema load to serving    *)
(*   ProcessSpec   a process of either server: StartupSpec or ExecSpec     *)
(*   ExecuteSpec   calls of the execute method of the returned handler     *)
(***************************************************************************)
EXTENDS Integers, Sequences, FiniteSets, TLC

VARIABLES
    schema,        \* the GraphQLSchema: root fields and input object types
    config,        \* the Config / env of the process
    argument,      \* MapperSpec: the GraphQLArgument being converted
    zodField,      \* MapperSpec: what argumentToZodSchema returned
    handler,       \* RegistrySpec: createGraphQLHandler's state
    tools,         \* RegistrySpec: the Map<string, Tool> of the handler
    nextRef,       \* RegistrySpec: the next object identity to allocate
    snapshot,      \* RegistrySpec: the tools array index.ts lists from
    observed,      \* RegistrySpec: what the last lookup of a caller saw
    reloads,       \* RegistrySpec: loadTools calls after the initial one
    call,          \* ExecSpec: the tool call in progress
    outbound,      \* ExecSpec: the requests the call has sent
    result,        \* ExecSpec: what the call returned
    loader         \* StartupSpec: the schema load of createGraphQLHandler

vars == <<schema, config, argument, zodField, handler, tools, nextRef,
          snapshot, observed, reloads, call, outbound, result, loader>>

mapperVars == <<argument, zodField>>
registryVars == <<handler, tools, nextRef, snapshot, observed, reloads>>
execVars == <<call, outbound, result>>

---------------------------------------------------------------------------
(* Bounds of the model *)

\* input object types I1 .. In of a schema
NTypes == 4

\* loadTools reloads after the initial build
MaxReloads == 2

\* definitions (chunks) concatenated in one query text
MaxDefs == 2

---------------------------------------------------------------------------
(* GraphQL input types: GraphQLNonNull, GraphQLList and the named types *)

NonNull(t) == [kind |-> "NonNull", ofType |-> t]

List(t) == [kind |-> "List", ofType |-> t]

Scalar(n) == [kind |-> "Scalar", name |-> n]

Enum(n) == [kind |-> "Enum", name |-> n]

InputObject(n) == [kind |-> "InputObject", name |-> n]

TypeName(i) == "I" \o ToString(i)

\* the wrappers a type reference is written with: T, T!, [T], [T!]!
Wrappers == {"T", "T!", "[T]", "[T!]!"}

Wrap(w, t) ==
    CASE w = "T" -> t
      [] w = "T!" -> NonNull(t)
      [] w = "[T]" -> List(t)
      [] w = "[T!]!" -> NonNull(List(NonNull(t)))

isNonNullType(t) == t.kind = "NonNull"

isListType(t) == t.kind = "List"

isScalarType(t) == t.kind = "Scalar"

isInputObjectType(t) == t.kind = "InputObject"

\* type.getFields() of an input object type: its fields in declaration order
getFields(type) == schema.types[type.name]

---------------------------------------------------------------------------
(* zod schema nodes *)

ZAny == [kind |-> "any"]

ZString == [kind |-> "string"]

ZInt == [kind |-> "int"]

ZNumber == [kind |-> "number"]

ZBoolean == [kind |-> "boolean"]

ZArray(e) == [kind |-> "array", element |-> e]

ZObject(shape) == [kind |-> "object", shape |-> shape]

ZOptional(n) == [kind |-> "optional", inner |-> n]

ZDefault(n, v) == [kind |-> "default", inner |-> n, value |-> v]

\* the RangeError (maximum call stack size exceeded) of a recursion that
\* never returns
RangeError == [kind |-> "RangeError"]

Pending == [kind |-> "pending"]

Undefined == "undefined"

Range(s) == {s[i] : i \in DOMAIN s}

---------------------------------------------------------------------------
(* The type mapper *)

\* the default value of convertToZodSchema's maxDepth parameter
DefaultMaxDepth == 3

\* the switch of the earlier mapper, on the name of a named type
namedTypeToZodSchema(typeName) ==
    CASE typeName = "String" -> ZString
      [] typeName = "Int" -> ZInt
      [] typeName = "Float" -> ZNumber
      [] typeName = "Boolean" -> ZBoolean
      [] typeName = "ID" -> ZString
      [] OTHER -> ZString

\* a mapper that maps Int as it maps Float
ScalarToZodSchemaLooseInt(type) ==
    IF type.name = "String" \/ type.name = "ID" THEN ZString
    ELSE IF type.name = "Int" THEN ZNumber
    ELSE IF type.name = "Float" THEN ZNumber
    ELSE IF type.name = "Boolean" THEN ZBoolean
    ELSE ZString

\* the scalar branch of convertToZodSchema
ScalarToZodSchema(type) ==
    IF type.name = "String" \/ type.name = "ID" THEN ZString
    ELSE IF type.name = "Int" THEN ZInt
    ELSE IF type.name = "Float" THEN ZNumber
    ELSE IF type.name = "Boolean" THEN ZBoolean
    ELSE ZString

\* an input object branch that returns the object as it is
InputObjectNodeRequired(shape) == ZObject(shape)

\* what the input object branch of convertToZodSchema returns for a shape
InputObjectNode(shape) == ZOptional(ZObject(shape))

\* convertToZodSchema(type, maxDepth).  stack is the call stack: the calls
\* (type, maxDepth) that are active.  The function is deterministic, so a
\* call that re-enters an active call with the same arguments recurses
\* without end and the engine throws RangeError; an exception thrown by an
\* inner call propagates through every caller.
RECURSIVE convertToZodSchema(_, _, _)
convertToZodSchema(type, maxDepth, stack) ==
    LET frame == <<type, maxDepth>>
        inner == Append(stack, frame)
    IN
    IF \E i \in DOMAIN stack : stack[i] = frame THEN RangeError
    ELSE IF maxDepth = 0 THEN ZAny
    ELSE IF isNonNullType(type)
    THEN convertToZodSchema(type.ofType, DefaultMaxDepth, inner)
    ELSE IF isListType(type)
    THEN LET e == convertToZodSchema(type.ofType, DefaultMaxDepth, inner)
         IN IF e = RangeError THEN RangeError ELSE ZArray(e)
    ELSE IF isScalarType(type) THEN ScalarToZodSchema(type)
    ELSE IF isInputObjectType(type)
    THEN LET fields == getFields(type)
             conv == [i \in DOMAIN fields |->
                         convertToZodSchema(fields[i].type, maxDepth - 1, inner)]
             shape == [n \in {fields[i].name : i \in DOMAIN fields} |->
                         LET i == CHOOSE j \in DOMAIN fields : fields[j].name = n
                         IN IF isNonNullType(fields[i].type)
                            THEN conv[i]
                            ELSE ZOptional(conv[i])]
         IN IF \E i \in DOMAIN fields : conv[i] = RangeError
            THEN RangeError
            ELSE InputObjectNode(shape)
    ELSE ZAny

\* argumentToZodSchema(argument): zodField.default(...) returns a new schema
\* and leaves zodField as it is; the returned schema is dropped
argumentToZodSchema(arg) ==
    LET zf == convertToZodSchema(arg.type, DefaultMaxDepth, <<>>)
        withDefault == IF arg.defaultValue # Undefined /\ zf # RangeError
                       THEN ZDefault(zf, arg.defaultValue)
                       ELSE zf
    IN zf

---------------------------------------------------------------------------
(* Schemas and arguments the mapper is applied to *)

\* the fields of input object type Ii: a reference next, written with wrapper
\* w, to the following type of the chain (an Int after the last) or, with
\* back, to I1 again (a cycle; for I1 a direct self reference), beside a
\* non-null and a nullable scalar field
ChainTarget(i, back) ==
    IF back THEN InputObject(TypeName(1))
    ELSE IF i < NTypes THEN InputObject(TypeName(i + 1))
    ELSE Scalar("Int")

TypeFields(i, w, back) ==
    << [name |-> "next", type |-> Wrap(w, ChainTarget(i, back))],
       [name |-> "id", type |-> NonNull(Scalar("ID"))],
       [name |-> "note", type |-> Scalar("String")] >>

TypeMapOf(c) ==
    [n \in {TypeName(i) : i \in 1..NTypes} |->
        LET i == CHOOSE j \in 1..NTypes : TypeName(j) = n
        IN TypeFields(i, c[i][1], c[i][2])]

TypeMaps == {TypeMapOf(c) : c \in [1..NTypes -> Wrappers \X BOOLEAN]}

\* a chain of nullable plain references: I1 { next: I2 } ... In { next: Int }
PlainTypeMap == TypeMapOf([i \in 1..NTypes |-> <<"T", FALSE>>])

NamedLeafTypes ==
    {Scalar("String"), Scalar("Int"), Scalar("Float"), Scalar("Boolean"),
     Scalar("ID"), Scalar("DateTime"), Enum("Color")}

DefaultValues == {Undefined, "dflt"}

ArgumentsOf(targets) ==
    {[name |-> "arg", type |-> Wrap(w, t), defaultValue |-> d] :
        w \in Wrappers, t \in targets, d \in DefaultValues}

NoArgument == [name |-> "", type |-> Scalar("String"), defaultValue |-> Undefined]

EmptySchema == [query |-> <<>>, mutation |-> <<>>, types |-> <<>>]

DefaultConfig ==
    [allowMutations |-> FALSE, excludeQueries |-> <<>>, excludeMutations |-> <<>>]

---------------------------------------------------------------------------
(* Operation extractor and tool synthesizer *)

\* Array.prototype.includes
includes(arr, x) == \E i \in DOMAIN arr : arr[i] = x

\* String.prototype.startsWith
startsWith(s, p) == Len(s) >= Len(p) /\ SubSeq(s, 1, Len(p)) = p

\* createOperationDescription, reduced to the parts that vary with the
\* operation's own fields (the parameter list and the printed output type
\* are left out)
createOperationDescription(type, field) ==
    [operation |-> type,
     name |-> field.name,
     text |-> IF field.description = ""
              THEN "No description available"
              ELSE field.description]

\* the operations of one root type, in the order of Object.entries
OperationsOf(fields, type) ==
    [i \in DOMAIN fields |->
        [name |-> fields[i].name,
         type |-> type,
         description |-> createOperationDescription(type, fields[i]),
         parameters |-> fields[i].args]]

\* getOperations(schema, allowedOperations)
getOperations(sch, allowedOperations) ==
    (IF includes(allowedOperations, "query")
     THEN OperationsOf(sch.query, "query") ELSE <<>>)
    \o
    (IF includes(allowedOperations, "mutation")
     THEN OperationsOf(sch.mutation, "mutation") ELSE <<>>)

\* the zod schemas of the definitions, in order
ArgumentSchemas(variableDefinitions) ==
    [i \in DOMAIN variableDefinitions |->
        argumentToZodSchema(variableDefinitions[i])]

\* a synthesizer whose parameter schema is the object of the arguments
\* itself, without the query and variables slots
buildZodSchemaFromVariablesFlat(variableDefinitions) ==
    LET conv == ArgumentSchemas(variableDefinitions)
    IN IF \E i \in DOMAIN conv : conv[i] = RangeError
       THEN RangeError
       ELSE ZObject([n \in {variableDefinitions[i].name : i \in DOMAIN variableDefinitions} |->
                       conv[CHOOSE i \in DOMAIN variableDefinitions :
                               variableDefinitions[i].name = n]])

\* buildZodSchemaFromVariables(variableDefinitions); a later definition of
\* the same name overwrites an earlier one
buildZodSchemaFromVariables(variableDefinitions) ==
    LET conv == ArgumentSchemas(variableDefinitions)
        schemaObj ==
            [n \in {variableDefinitions[i].name : i \in DOMAIN variableDefinitions} |->
                LET last == CHOOSE i \in DOMAIN variableDefinitions :
                        /\ variableDefinitions[i].name = n
                        /\ \A j \in DOMAIN variableDefinitions :
                              variableDefinitions[j].name = n => j <= i
                IN conv[last]]
    IN IF \E i \in DOMAIN conv : conv[i] = RangeError
       THEN RangeError
       ELSE ZObject([variables |-> ZObject(schemaObj), query |-> ZString])

\* a synthesizer that names the tool by the operation's name alone
ToolNameWithoutKind(operation) == operation.name

\* the name operationToTool gives the tool of an operation
ToolName(operation) == operation.type \o "-" \o operation.name

\* operationToTool(operation): the Tool, or the error it throws.  ref is the
\* identity of the new object and load the loadTools call that builds it.
operationToTool(operation, ref, load) ==
    IF operation.name = "" THEN [kind |-> "Error"]
    ELSE LET paramSchema == buildZodSchemaFromVariables(operation.parameters)
         IN IF paramSchema = RangeError THEN RangeError
            ELSE [kind |-> "Tool",
                  name |-> ToolName(operation),
                  description |-> operation.description,
                  parameters |-> paramSchema,
                  ref |-> ref,
                  load |-> load]

---------------------------------------------------------------------------
(* The tool registry: a Map<string, Tool>, entries in insertion order *)

MapHas(m, k) == \E i \in DOMAIN m : m[i].key = k

MapGet(m, k) == (m[CHOOSE i \in DOMAIN m : m[i].key = k]).value

\* a registry kept as a list that every set is pushed on
MapSetAppend(m, k, v) == Append(m, [key |-> k, value |-> v])

\* Map.prototype.set: replaces the value of a present key where it stands,
\* appends an absent key
MapSet(m, k, v) ==
    IF MapHas(m, k)
    THEN [i \in DOMAIN m |-> IF m[i].key = k THEN [key |-> k, value |-> v] ELSE m[i]]
    ELSE Append(m, [key |-> k, value |-> v])

MapKeys(m) == {m[i].key : i \in DOMAIN m}

MapValues(m) == [i \in DOMAIN m |-> m[i].value]

\* whether loadTools skips the operation
Excluded(operation) ==
    \/ operation.name = ""
    \/ includes(config.excludeQueries, operation.name)
    \/ includes(config.excludeMutations, operation.name)

\* the loop of loadTools over operations[from+1 .. to], on the entries of
\* the map: the entries it leaves, the references it used, whether
\* operationToTool threw
RECURSIVE LoadLoop(_, _, _, _, _, _)
LoadLoop(operations, from, to, entries, ref, load) ==
    IF from >= to THEN [entries |-> entries, nextRef |-> ref, thrown |-> FALSE]
    ELSE LET operation == operations[from + 1] IN
         IF Excluded(operation)
         THEN LoadLoop(operations, from + 1, to, entries, ref, load)
         ELSE LET tool == operationToTool(operation, ref, load) IN
              IF tool.kind # "Tool"
              THEN [entries |-> entries, nextRef |-> ref, thrown |-> TRUE]
              ELSE LoadLoop(operations, from + 1, to,
                            MapSet(entries, tool.name, tool), ref + 1, load)

\* a loop that awaits after every operation
LoopStepsAwaiting(operations) == 1

\* the operations one run of loadTools handles before another task of the
\* event loop can run: all of them, the loop awaits nothing
LoopSteps(operations) == Len(operations)

\* a loadTools that does not read allowMutations
AllowedOperationsUngated == <<"query", "mutation">>

\* the allowedOperations loadTools passes to getOperations
AllowedOperations == IF config.allowMutations THEN <<"query", "mutation">> ELSE <<"query">>

---------------------------------------------------------------------------
(* HTTP headers *)

\* header objects: none, and one with a header of its own and a
\* Content-Type of its own
NoHeaders == <<>>

HeaderMaps ==
    {NoHeaders,
     ("Authorization" :> "Bearer token") @@ ("Content-Type" :> "text/plain")}

ContentTypeJSON == ("Content-Type" :> "application/json")

\* an object literal that spreads base-first: { ...base, ...extra }
MergeHeadersBaseWins(base, extra) ==
    [n \in DOMAIN base \cup DOMAIN extra |->
        IF n \in DOMAIN base THEN base[n] ELSE extra[n]]

\* the object literal { "Content-Type": ..., ...headers }: a later member
\* replaces an earlier one of the same name
MergeHeaders(base, extra) ==
    [n \in DOMAIN base \cup DOMAIN extra |->
        IF n \in DOMAIN extra THEN extra[n] ELSE base[n]]

---------------------------------------------------------------------------
(* MapperSpec: argumentToZodSchema applied to one argument of a schema *)

MapperArguments ==
    {<<tm, a>> : tm \in TypeMaps, a \in ArgumentsOf({InputObject(TypeName(1))})}
    \cup {<<PlainTypeMap, a>> : a \in ArgumentsOf(NamedLeafTypes)}

IdleHandler == [state |-> "starting", cursor |-> 0]

NoTools == [ref |-> 0, entries |-> <<>>]

\* no response yet
NoResponse == [status |-> 0, body |-> [kind |-> "none", errors |-> "absent"]]

NoCall ==
    [handler |-> "none", pc |-> "idle", query |-> <<>>, variables |-> Undefined,
     headers |-> NoHeaders, response |-> NoResponse]

NoResult == [kind |-> "none", isError |-> FALSE]

\* no schema load: the schema is at hand
NoLoad ==
    [pc |-> "none", source |-> "none", reads |-> <<>>, writes |-> <<>>,
     input |-> [kind |-> "none"], error |-> [kind |-> "none"]]

RegistryIdle ==
    /\ loader = NoLoad
    /\ handler = IdleHandler
    /\ tools = NoTools
    /\ nextRef = 1
    /\ snapshot = <<>>
    /\ observed = [via |-> "none", map |-> 0, view |-> {}]
    /\ reloads = 0

ExecIdle ==
    /\ call = NoCall
    /\ outbound = <<>>
    /\ result = NoResult

MapperInit ==
    /\ \E p \in MapperArguments :
          /\ schema = [query |-> <<>>, mutation |-> <<>>, types |-> p[1]]
          /\ argument = p[2]
    /\ config = DefaultConfig
    /\ zodField = Pending
    /\ RegistryIdle
    /\ ExecIdle

\* a call of argumentToZodSchema(argument)
ArgumentToZodSchema ==
    /\ zodField = Pending
    /\ zodField' = argumentToZodSchema(argument)
    /\ UNCHANGED <<schema, config, argument, registryVars, execVars, loader>>

MapperNext == ArgumentToZodSchema

MapperSpec == MapperInit /\ [][MapperNext]_vars

---------------------------------------------------------------------------
(* RegistrySpec: createGraphQLHandler, index.ts's snapshot, reloads, lookups *)

\* the root fields of the schemas: X(id: ID!) and Y(filter: I1, limit: Int = ...)
FieldOf(n) ==
    IF n = "X"
    THEN [name |-> "X", description |-> "",
          args |-> << [name |-> "id", type |-> NonNull(Scalar("ID")),
                       defaultValue |-> Undefined] >>]
    ELSE [name |-> n, description |-> "doc",
          args |-> << [name |-> "filter", type |-> InputObject(TypeName(1)),
                       defaultValue |-> Undefined],
                      [name |-> "limit", type |-> Scalar("Int"),
                       defaultValue |-> "dflt"] >>]

NameSeqs == {<<>>, <<"X">>, <<"Y">>, <<"X", "Y">>, <<"Y", "X">>}

RootFields(names) == [i \in DOMAIN names |-> FieldOf(names[i])]

ExcludeLists == {<<>>, <<"X">>, <<"Y">>, <<"X", "Y">>}

\* I1 { next: [I1] }: an input object that refers to itself through a list
SelfListTypeMap ==
    TypeMapOf([i \in 1..NTypes |-> IF i = 1 THEN <<"[T]", TRUE>> ELSE <<"T", FALSE>>])

RegistryInit ==
    /\ \E q \in NameSeqs, m \in NameSeqs, tm \in {PlainTypeMap, SelfListTypeMap} :
          schema = [query |-> RootFields(q), mutation |-> RootFields(m), types |-> tm]
    /\ \E am \in BOOLEAN, eq \in ExcludeLists, em \in ExcludeLists :
          config = [allowMutations |-> am, excludeQueries |-> eq,
                    excludeMutations |-> em]
    /\ argument = NoArgument
    /\ zodField = Pending
    /\ RegistryIdle
    /\ ExecIdle

Min(a, b) == IF a <= b THEN a ELSE b

\* createGraphQLHandler(config): the schema is loaded, the Map is created
\* and loadTools fills it; the handler is returned when loadTools has
\* returned, and the promise rejects when it throws
CreateGraphQLHandler ==
    /\ handler.state = "starting"
    /\ LET operations == getOperations(schema, AllowedOperations)
           to == Min(Len(operations), handler.cursor + LoopSteps(operations))
           r == LoadLoop(operations, handler.cursor, to, tools.entries, nextRef, 0)
       IN /\ tools' = [ref |-> 1, entries |-> r.entries]
          /\ nextRef' = r.nextRef
          /\ handler' = IF r.thrown THEN [state |-> "failed", cursor |-> 0]
                        ELSE IF to = Len(operations) THEN [state |-> "ready", cursor |-> 0]
                        ELSE [state |-> "starting", cursor |-> to]
    /\ UNCHANGED <<schema, config, mapperVars, snapshot, observed, reloads, execVars, loader>>

\* handler.loadTools() on the returned handler: a reload
LoadTools ==
    /\ handler.state = "ready"
    /\ handler.cursor > 0 \/ reloads < MaxReloads
    /\ LET operations == getOperations(schema, AllowedOperations)
           load == IF handler.cursor = 0 THEN reloads + 1 ELSE reloads
           to == Min(Len(operations), handler.cursor + LoopSteps(operations))
           r == LoadLoop(operations, handler.cursor, to, tools.entries, nextRef, load)
       IN /\ reloads' = load
          /\ tools' = [tools EXCEPT !.entries = r.entries]
          /\ nextRef' = r.nextRef
          /\ handler' = [state |-> "ready",
                         cursor |-> IF r.thrown \/ to = Len(operations) THEN 0 ELSE to]
    /\ UNCHANGED <<schema, config, mapperVars, snapshot, observed, execVars, loader>>

\* index.ts, after the handler is returned: the array of copies of the
\* tools that the ListTools handler lists
Snapshot ==
    /\ handler = [state |-> "ready", cursor |-> 0]
    /\ reloads = 0
    /\ snapshot = <<>>
    /\ snapshot' = << [taken |-> TRUE,
                       tools |-> [i \in DOMAIN tools.entries |->
                                    LET tool == tools.entries[i].value
                                    IN [name |-> tool.name,
                                        description |-> tool.description,
                                        parameters |-> tool.parameters,
                                        load |-> tool.load]]] >>
    /\ UNCHANGED <<schema, config, mapperVars, handler, tools, nextRef, observed,
                   reloads, execVars, loader>>

\* a caller reads handler.tools: the map it holds and the tools in it
Lookup ==
    /\ handler.state = "ready"
    /\ observed' = [via |-> "handler.tools",
                    map |-> tools.ref,
                    view |-> {[name |-> tools.entries[i].key,
                               load |-> tools.entries[i].value.load] :
                                 i \in DOMAIN tools.entries}]
    /\ UNCHANGED <<schema, config, mapperVars, handler, tools, nextRef, snapshot,
                   reloads, execVars, loader>>

\* the ListToolsRequestSchema handler: the two fixed tools and the snapshot
ListTools ==
    /\ snapshot # <<>>
    /\ observed' = [via |-> "ListTools",
                    map |-> 0,
                    view |-> {[name |-> "introspect_schema", load |-> 0],
                              [name |-> "execute_query", load |-> 0]}
                             \cup {[name |-> snapshot[1].tools[i].name,
                                    load |-> snapshot[1].tools[i].load] :
                                      i \in DOMAIN snapshot[1].tools}]
    /\ UNCHANGED <<schema, config, mapperVars, handler, tools, nextRef, snapshot,
                   reloads, execVars, loader>>

RegistryNext ==
    \/ CreateGraphQLHandler
    \/ LoadTools
    \/ Snapshot
    \/ Lookup
    \/ ListTools

RegistrySpec == RegistryInit /\ [][RegistryNext]_vars

---------------------------------------------------------------------------
(* Query texts and graphql's parse *)

\* A query text is the sequence of its tokens.  The pieces texts are made of:
\* well-formed definitions and malformed ones.
Chunks ==
    { <<"{", "f", "}">>,                                 \* { f }
      <<"query", "Q", "{", "f", "{", "f", "}", "}">>,    \* query Q { f { f } }
      <<"mutation", "{", "f", "}">>,                     \* mutation { f }
      <<"{", "mutation", "}">>,                          \* a field named mutation
      <<"query", "mutation", "{", "f", "}">>,            \* a query named mutation
      <<"subscription", "{", "f", "}">>,
      <<"fragment", "F", "on", "T", "{", "f", "}">>,
      <<"{", "f">>,                                      \* not closed
      <<"mutation">>,
      <<"{", "}">> }                                     \* no selection

RECURSIVE TextsOf(_)
TextsOf(n) ==
    IF n = 0 THEN {<<>>}
    ELSE TextsOf(n - 1) \cup {t \o c : t \in TextsOf(n - 1), c \in Chunks}

Texts == TextsOf(MaxDefs)

IsPunctuator(tok) == tok = "{" \/ tok = "}"

\* parseSelectionSet at position p: the position after its closing brace,
\* or 0 for a syntax error.  A selection is a field name with an optional
\* selection set; a selection set holds one selection at least.
RECURSIVE ParseSelections(_, _, _)
ParseSelectionSet(toks, p) ==
    IF p <= Len(toks) /\ toks[p] = "{" THEN ParseSelections(toks, p + 1, 0) ELSE 0

ParseSelections(toks, p, n) ==
    IF p > Len(toks) THEN 0
    ELSE IF toks[p] = "}" THEN (IF n > 0 THEN p + 1 ELSE 0)
    ELSE IF toks[p] = "{" THEN 0
    ELSE IF p + 1 <= Len(toks) /\ toks[p + 1] = "{"
         THEN LET q == ParseSelections(toks, p + 2, 0)
              IN IF q = 0 THEN 0 ELSE ParseSelections(toks, q, n + 1)
         ELSE ParseSelections(toks, p + 1, n + 1)

\* parseDefinition at position p: the definition's node and the position
\* after it (0 for a syntax error)
ParseDefinition(toks, p) ==
    LET tok == toks[p] IN
    IF tok = "{"
    THEN [node |-> [kind |-> "OperationDefinition", operation |-> "query"],
          next |-> ParseSelectionSet(toks, p)]
    ELSE IF tok \in {"query", "mutation", "subscription"}
    THEN LET named == p + 1 <= Len(toks) /\ ~IsPunctuator(toks[p + 1])
         IN [node |-> [kind |-> "OperationDefinition", operation |-> tok],
             next |-> ParseSelectionSet(toks, IF named THEN p + 2 ELSE p + 1)]
    ELSE IF tok = "fragment"
    THEN [node |-> [kind |-> "FragmentDefinition", operation |-> ""],
          next |-> IF /\ p + 3 <= Len(toks)
                      /\ ~IsPunctuator(toks[p + 1]) /\ toks[p + 1] # "on"
                      /\ toks[p + 2] = "on"
                      /\ ~IsPunctuator(toks[p + 3])
                   THEN ParseSelectionSet(toks, p + 4)
                   ELSE 0]
    ELSE [node |-> [kind |-> "none", operation |-> ""], next |-> 0]

RECURSIVE ParseDefinitions(_, _, _)
ParseDefinitions(toks, p, defs) ==
    IF p > Len(toks)
    THEN [ok |-> defs # <<>>, definitions |-> defs]
    ELSE LET d == ParseDefinition(toks, p)
         IN IF d.next = 0
            THEN [ok |-> FALSE, definitions |-> <<>>]
            ELSE ParseDefinitions(toks, d.next, Append(defs, d.node))

\* parse(query): the document, or the GraphQLError (syntax error) it throws
parse(query) == ParseDefinitions(query, 1, <<>>)

---------------------------------------------------------------------------
(* HTTP responses *)

Statuses == {200, 201, 400, 500}

\* Response.ok
Ok(response) == response.status >= 200 /\ response.status <= 299

\* the values of the errors member of a JSON object body
ErrorsValues == {"absent", "null", "emptyArray", "oneError", "object"}

\* a response body: text that is not JSON, the JSON null, a JSON string, or
\* a JSON object with its errors member
Bodies ==
    {[kind |-> "text", errors |-> "absent"],
     [kind |-> "null", errors |-> "absent"],
     [kind |-> "string", errors |-> "absent"]}
    \cup {[kind |-> "object", errors |-> e] : e \in ErrorsValues}

Responses == {[status |-> st, body |-> b] : st \in Statuses, b \in Bodies}

\* whether response.json() resolves
IsJSON(body) == body.kind # "text"

\* JavaScript truthiness of data.errors
Truthy(errors) == errors \in {"emptyArray", "oneError", "object"}

\* whether data.errors.length > 0 holds (length is undefined on an object)
HasPositiveLength(errors) == errors = "oneError"

\* fetch rejects: no response arrives
NetworkFailure == [status |-> 0, body |-> [kind |-> "rejected", errors |-> "absent"]]

---------------------------------------------------------------------------
(* The query-graphql tool registered on the McpServer *)

\* a check that looks at the first definition only
IsMutationFirstOnly(document) ==
    /\ document.definitions # <<>>
    /\ document.definitions[1].kind = "OperationDefinition"
    /\ document.definitions[1].operation = "mutation"

\* the check whether the parsed query is a mutation
IsMutation(document) ==
    \E i \in DOMAIN document.definitions :
        /\ document.definitions[i].kind = "OperationDefinition"
        /\ document.definitions[i].operation = "mutation"

ToolResult(k, isError) == [kind |-> k, isError |-> isError]

Thrown == [kind |-> "thrown", isError |-> FALSE]

\* a handler that swallows the syntax error and goes on
ClassifyQueryUnchecked(query) ==
    LET parsedQuery == parse(query) IN
    IF IsMutation(parsedQuery) /\ ~config.allowMutations THEN "mutationsDisabled"
    ELSE "permitted"

\* the first try block of the handler: the error result it returns, or
\* "permitted"
ClassifyQuery(query) ==
    LET parsedQuery == parse(query) IN
    IF ~parsedQuery.ok THEN "invalidQuery"
    ELSE IF IsMutation(parsedQuery) /\ ~config.allowMutations THEN "mutationsDisabled"
    ELSE "permitted"

\* JSON.stringify({ query, variables }): a member whose value is undefined
\* is left out
RequestBody(query, variables) ==
    IF variables = Undefined
    THEN [query |-> query]
    ELSE [query |-> query, variables |-> variables]

\* the request the handler's fetch sends: contentType is the member the
\* headers literal starts with, headers the object it spreads after it
Request(contentType, headers, query, variables) ==
    [method |-> "POST",
     headers |-> MergeHeaders(contentType, headers),
     body |-> RequestBody(query, variables)]

\* a handler that takes any errors member, an empty array too, for errors
ClassifyResponseAnyErrors(response) ==
    IF response = NetworkFailure THEN Thrown
    ELSE IF ~Ok(response) THEN ToolResult("transportError", TRUE)
    ELSE IF ~IsJSON(response.body) THEN Thrown
    ELSE IF response.body.kind = "null" THEN Thrown
    ELSE IF Truthy(response.body.errors) THEN ToolResult("graphqlErrors", TRUE)
    ELSE ToolResult("success", FALSE)

\* a handler whose catch block returns an error result
ClassifyResponseCatching(response) ==
    IF response = NetworkFailure THEN ToolResult("transportError", TRUE)
    ELSE IF ~Ok(response) THEN ToolResult("transportError", TRUE)
    ELSE IF ~IsJSON(response.body) THEN ToolResult("transportError", TRUE)
    ELSE IF response.body.kind = "null" THEN ToolResult("transportError", TRUE)
    ELSE IF Truthy(response.body.errors) /\ HasPositiveLength(response.body.errors)
    THEN ToolResult("graphqlErrors", TRUE)
    ELSE ToolResult("success", FALSE)

\* the second try block after fetch has settled with response
ClassifyResponse(response) ==
    IF response = NetworkFailure THEN Thrown
    ELSE IF ~Ok(response) THEN ToolResult("transportError", TRUE)
    ELSE IF ~IsJSON(response.body) THEN Thrown
    ELSE IF response.body.kind = "null" THEN Thrown
    ELSE IF Truthy(response.body.errors) /\ HasPositiveLength(response.body.errors)
    THEN ToolResult("graphqlErrors", TRUE)
    ELSE ToolResult("success", FALSE)

Variables == {Undefined, "vars"}

\* a call of the tool, up to the fetch it awaits
QueryGraphql ==
    /\ call.pc = "idle"
    /\ \E query \in Texts, variables \in Variables :
          LET c == ClassifyQuery(query) IN
          /\ call' = [handler |-> "query-graphql",
                      pc |-> IF c = "permitted" THEN "fetch" ELSE "done",
                      query |-> query, variables |-> variables,
                      headers |-> NoHeaders,
                      response |-> NoResponse]
          /\ outbound' = IF c = "permitted"
                         THEN <<Request(ContentTypeJSON, config.headers,
                                        query, variables)>>
                         ELSE <<>>
          /\ result' = IF c = "permitted" THEN NoResult ELSE ToolResult(c, TRUE)
    /\ UNCHANGED <<schema, config, mapperVars, registryVars, loader>>

\* fetch settles, with a response or a network failure, and the handler
\* runs to its end
QueryGraphqlSettle ==
    /\ call.handler = "query-graphql"
    /\ call.pc = "fetch"
    /\ \E response \in Responses \cup {NetworkFailure} :
          /\ call' = [call EXCEPT !.pc = "done", !.response = response]
          /\ result' = ClassifyResponse(response)
    /\ UNCHANGED <<schema, config, mapperVars, registryVars, outbound, loader>>

---------------------------------------------------------------------------
(* The query-graphql tool of the CallToolRequestSchema handler *)

\* the syntax check of the handler
ClassifyQueryCallTool(query) ==
    IF ~parse(query).ok THEN "invalidQuery" ELSE "permitted"

\* the try block after fetch has settled: a status that is not a success is
\* thrown, caught and thrown again
ClassifyResponseCallTool(response) ==
    IF response = NetworkFailure THEN Thrown
    ELSE IF ~Ok(response) THEN Thrown
    ELSE IF ~IsJSON(response.body) THEN Thrown
    ELSE IF response.body.kind = "null" THEN Thrown
    ELSE IF Truthy(response.body.errors) /\ HasPositiveLength(response.body.errors)
    THEN ToolResult("graphqlErrors", TRUE)
    ELSE ToolResult("success", FALSE)

\* the member the handler's headers literal starts with
ContentTypeJSONLower == ("content-type" :> "application/json")

\* a call of the tool with the arguments query, variables and headers, up
\* to the fetch it awaits
CallTool ==
    /\ call.pc = "idle"
    /\ \E query \in Texts, variables \in Variables, headers \in HeaderMaps :
          LET c == ClassifyQueryCallTool(query) IN
          /\ call' = [handler |-> "CallTool",
                      pc |-> IF c = "permitted" THEN "fetch" ELSE "done",
                      query |-> query, variables |-> variables,
                      headers |-> headers,
                      response |-> NoResponse]
          /\ outbound' = IF c = "permitted"
                         THEN <<Request(ContentTypeJSONLower, headers,
                                        query, variables)>>
                         ELSE <<>>
          /\ result' = IF c = "permitted" THEN NoResult ELSE ToolResult(c, TRUE)
    /\ UNCHANGED <<schema, config, mapperVars, registryVars, loader>>

CallToolSettle ==
    /\ call.handler = "CallTool"
    /\ call.pc = "fetch"
    /\ \E response \in Responses \cup {NetworkFailure} :
          /\ call' = [call EXCEPT !.pc = "done", !.response = response]
          /\ result' = ClassifyResponseCallTool(response)
    /\ UNCHANGED <<schema, config, mapperVars, registryVars, outbound, loader>>

\* the server of this index calls no createGraphQLHandler
NoHandler == [state |-> "none", cursor |-> 0]

ExecInit ==
    /\ schema = EmptySchema
    /\ \E am \in BOOLEAN, h \in HeaderMaps :
          config = [allowMutations |-> am, excludeQueries |-> <<>>,
                    excludeMutations |-> <<>>, headers |-> h]
    /\ argument = NoArgument
    /\ zodField = Pending
    /\ loader = NoLoad
    /\ handler = NoHandler
    /\ tools = NoTools
    /\ nextRef = 1
    /\ snapshot = <<>>
    /\ observed = [via |-> "none", map |-> 0, view |-> {}]
    /\ reloads = 0
    /\ ExecIdle

\* the result goes back to the client; the server waits for the next call
Return ==
    /\ call.pc = "done"
    /\ call' = NoCall
    /\ outbound' = <<>>
    /\ result' = NoResult
    /\ UNCHANGED <<schema, config, mapperVars, registryVars, loader>>

ExecNext ==
    \/ QueryGraphql
    \/ QueryGraphqlSettle
    \/ CallTool
    \/ CallToolSettle
    \/ Return

ExecSpec == ExecInit /\ [][ExecNext]_vars

---------------------------------------------------------------------------
(* The schema source: loadSchemaFromIntrospection and loadSchemaFromFile *)

\* Response.statusText
StatusText(status) ==
    CASE status = 200 -> "OK"
      [] status = 201 -> "Created"
      [] status = 400 -> "Bad Request"
      [] status = 500 -> "Internal Server Error"
      [] OTHER -> ""

\* the request of loadSchemaFromIntrospection's fetch
IntrospectionRequest(endpoint, headers) ==
    [method |-> "POST",
     url |-> endpoint,
     headers |-> MergeHeaders(ContentTypeJSON, headers),
     body |-> [query |-> "getIntrospectionQuery()"]]

\* a loader that fetches again
IntrospectionFetchesTwice(endpoint, headers) ==
    << IntrospectionRequest(endpoint, headers),
       IntrospectionRequest(endpoint, headers) >>

\* the fetch calls of one loadSchemaFromIntrospection call, in order
IntrospectionFetches(endpoint, headers) ==
    << IntrospectionRequest(endpoint, headers) >>

\* the schemas a service or a schema file describes
ServedSchemas ==
    {[query |-> RootFields(q), mutation |-> RootFields(m), types |-> PlainTypeMap] :
        q \in {<<>>, <<"X">>, <<"X", "Y">>}, m \in {<<>>, <<"X">>}}

\* the data member of an introspection response body: absent, null, an
\* object without __schema, one whose __schema buildClientSchema rejects,
\* one with the introspection of a schema
IntrospectionData ==
    {[kind |-> k, schema |-> EmptySchema] :
        k \in {"absent", "null", "empty", "malformed"}}
    \cup {[kind |-> "schema", schema |-> sch] : sch \in ServedSchemas}

NoData == [kind |-> "absent", schema |-> EmptySchema]

IntrospectionBodies ==
    {[kind |-> "text", errors |-> "absent", data |-> NoData],
     [kind |-> "null", errors |-> "absent", data |-> NoData]}
    \cup {[kind |-> "object", errors |-> e, data |-> d] :
             e \in ErrorsValues \ {"object"}, d \in IntrospectionData}

IntrospectionResponses ==
    {[status |-> st, statusText |-> StatusText(st), body |-> b] :
        st \in Statuses, b \in IntrospectionBodies}

\* what readFile finds at the path: an SDL document of a schema, a text
\* that is not SDL, an empty file, no file
FileContents ==
    {[kind |-> k, schema |-> EmptySchema] : k \in {"malformed", "empty", "missing"}}
    \cup {[kind |-> "sdl", schema |-> sch] : sch \in ServedSchemas}

\* an exception: its class, the fixed text of its message and the values
\* interpolated into the message
LoadError(name, text, parts) ==
    [kind |-> "Error", name |-> name, text |-> text, parts |-> parts]

Loaded(sch) == [kind |-> "schema", schema |-> sch]

\* an error message made of the status code
TransportErrorOfStatus(response) ==
    LoadError("Error", "Failed to fetch GraphQL schema: ",
              << [part |-> "status", value |-> ToString(response.status)] >>)

\* the error thrown for a status that is not a success
TransportError(response) ==
    LoadError("Error", "Failed to fetch GraphQL schema: ",
              << [part |-> "statusText", value |-> response.statusText] >>)

\* a loader that takes only a non-empty errors array for errors
loadSchemaFromIntrospectionLenient(response) ==
    LET responseJson == response.body IN
    IF response = NetworkFailure
    THEN LoadError("TypeError", "fetch failed", <<>>)
    ELSE IF ~Ok(response) THEN TransportError(response)
    ELSE IF ~IsJSON(responseJson)
    THEN LoadError("SyntaxError", "Unexpected token", <<>>)
    ELSE IF responseJson.kind = "null"
    THEN LoadError("TypeError", "Cannot read properties of null", <<>>)
    ELSE IF Truthy(responseJson.errors) /\ HasPositiveLength(responseJson.errors)
    THEN LoadError("Error", "Failed to fetch GraphQL schema: ",
                   << [part |-> "errors", value |-> responseJson.errors] >>)
    ELSE IF responseJson.data.kind \in {"absent", "null"}
    THEN LoadError("TypeError", "Cannot read properties of undefined", <<>>)
    ELSE IF responseJson.data.kind = "empty"
    THEN LoadError("Error", "Invalid schema found at ",
                   << [part |-> "responseJson", value |-> "responseJson"] >>)
    ELSE IF responseJson.data.kind = "malformed"
    THEN LoadError("Error", "Invalid or incomplete introspection result", <<>>)
    ELSE Loaded(responseJson.data.schema)

\* loadSchemaFromIntrospection after its fetch has settled with response,
\* up to buildClientSchema: the schema object, or the error thrown
loadSchemaFromIntrospection(response) ==
    LET responseJson == response.body IN
    IF response = NetworkFailure
    THEN LoadError("TypeError", "fetch failed", <<>>)
    ELSE IF ~Ok(response) THEN TransportError(response)
    ELSE IF ~IsJSON(responseJson)
    THEN LoadError("SyntaxError", "Unexpected token", <<>>)
    ELSE IF responseJson.kind = "null"
    THEN LoadError("TypeError", "Cannot read properties of null", <<>>)
    ELSE IF Truthy(responseJson.errors)
    THEN LoadError("Error", "Failed to fetch GraphQL schema: ",
                   << [part |-> "errors", value |-> responseJson.errors] >>)
    ELSE IF responseJson.data.kind \in {"absent", "null"}
    THEN LoadError("TypeError", "Cannot read properties of undefined", <<>>)
    ELSE IF responseJson.data.kind = "empty"
    THEN LoadError("Error", "Invalid schema found at ",
                   << [part |-> "responseJson", value |-> "responseJson"] >>)
    ELSE IF responseJson.data.kind = "malformed"
    THEN LoadError("Error", "Invalid or incomplete introspection result", <<>>)
    ELSE Loaded(responseJson.data.schema)

\* loadSchemaFromFile after readFile has settled: buildSchema's schema, or
\* the error thrown
loadSchemaFromFile(file) ==
    IF file.kind = "missing"
    THEN LoadError("Error", "ENOENT: no such file or directory", <<>>)
    ELSE IF file.kind \in {"malformed", "empty"}
    THEN LoadError("GraphQLError", "Syntax Error", <<>>)
    ELSE Loaded(file.schema)

---------------------------------------------------------------------------
(* StartupSpec: createGraphQLHandler from its call to the served tool list *)

Endpoint == "http://localhost:4000/graphql"

\* config.schemaPath: not set, the empty string, a path
SchemaPaths == {Undefined, "", "schema.graphql"}

\* a handler that introspects whenever an endpoint is configured
SchemaSourceEndpointFirst(cfg) ==
    IF cfg.endpoint # Undefined /\ cfg.endpoint # "" THEN "endpoint" ELSE "file"

\* the source createGraphQLHandler loads the schema from: the file when
\* config.schemaPath is truthy, the endpoint otherwise
SchemaSource(cfg) ==
    IF cfg.schemaPath # Undefined /\ cfg.schemaPath # "" THEN "file" ELSE "endpoint"

\* createGraphQLHandler is called; nothing is loaded yet
Loading == [state |-> "loading", cursor |-> 0]

Failed == [state |-> "failed", cursor |-> 0]

StartLoad == [NoLoad EXCEPT !.pc = "start"]

\* the server of this index registers no tool call handler
NotServed == [NoCall EXCEPT !.pc = "unregistered"]

StartupInit ==
    /\ schema = EmptySchema
    /\ \E am \in BOOLEAN, h \in HeaderMaps, sp \in SchemaPaths :
          config = [allowMutations |-> am, excludeQueries |-> <<>>,
                    excludeMutations |-> <<>>, endpoint |-> Endpoint,
                    headers |-> h, schemaPath |-> sp]
    /\ argument = NoArgument
    /\ zodField = Pending
    /\ loader = StartLoad
    /\ handler = Loading
    /\ tools = NoTools
    /\ nextRef = 1
    /\ snapshot = <<>>
    /\ observed = [via |-> "none", map |-> 0, view |-> {}]
    /\ reloads = 0
    /\ call = NotServed
    /\ outbound = <<>>
    /\ result = NoResult

\* createGraphQLHandler up to its first await: readFile of the path, or
\* the fetch of the introspection
LoadSchema ==
    /\ loader.pc = "start"
    /\ LET source == SchemaSource(config) IN
       IF source = "file"
       THEN /\ loader' = [loader EXCEPT !.pc = "readFile", !.source = source,
                                        !.reads = Append(@, config.schemaPath)]
            /\ outbound' = outbound
       ELSE /\ loader' = [loader EXCEPT !.pc = "fetch", !.source = source]
            /\ outbound' = outbound
                             \o IntrospectionFetches(config.endpoint, config.headers)
    /\ UNCHANGED <<schema, config, mapperVars, registryVars, call, result>>

\* readFile settles and loadSchemaFromFile runs to its end
LoadSchemaFromFileSettle ==
    /\ loader.pc = "readFile"
    /\ \E file \in FileContents :
          LET r == loadSchemaFromFile(file) IN
          IF r.kind = "schema"
          THEN /\ loader' = [loader EXCEPT !.pc = "done", !.input = file]
               /\ schema' = r.schema
               /\ handler' = IdleHandler
          ELSE /\ loader' = [loader EXCEPT !.pc = "done", !.input = file,
                                           !.error = r]
               /\ schema' = schema
               /\ handler' = Failed
    /\ UNCHANGED <<config, mapperVars, tools, nextRef, snapshot, observed, reloads,
                   execVars>>

\* the introspection fetch settles and loadSchemaFromIntrospection runs to
\* its writeFile
LoadSchemaFromIntrospectionSettle ==
    /\ loader.pc = "fetch"
    /\ \E response \in IntrospectionResponses \cup {NetworkFailure} :
          LET r == loadSchemaFromIntrospection(response) IN
          IF r.kind = "schema"
          THEN /\ loader' = [loader EXCEPT !.pc = "writeFile", !.input = response,
                                           !.writes = Append(@, "schema.graphql")]
               /\ handler' = handler
          ELSE /\ loader' = [loader EXCEPT !.pc = "done", !.input = response,
                                           !.error = r]
               /\ handler' = Failed
    /\ UNCHANGED <<schema, config, mapperVars, tools, nextRef, snapshot, observed,
                   reloads, execVars>>

\* writeFile settles: loadSchemaFromIntrospection returns the schema
\* object, or the write's error is thrown
WriteFileSettle ==
    /\ loader.pc = "writeFile"
    /\ \E written \in BOOLEAN :
          IF written
          THEN /\ loader' = [loader EXCEPT !.pc = "done"]
               /\ schema' = loader.input.body.data.schema
               /\ handler' = IdleHandler
          ELSE /\ loader' = [loader EXCEPT !.pc = "done",
                                !.error = LoadError("Error", "EACCES: permission denied",
                                                    <<>>)]
               /\ schema' = schema
               /\ handler' = Failed
    /\ UNCHANGED <<config, mapperVars, tools, nextRef, snapshot, observed, reloads,
                   execVars>>

StartupNext ==
    \/ LoadSchema
    \/ LoadSchemaFromFileSettle
    \/ LoadSchemaFromIntrospectionSettle
    \/ WriteFileSettle
    \/ CreateGraphQLHandler
    \/ LoadTools
    \/ Snapshot
    \/ Lookup
    \/ ListTools

StartupSpec == StartupInit /\ [][StartupNext]_vars

\* a process of either server: one that builds its tools at startup, or
\* one that registers the query-graphql tool
ProcessInit == StartupInit \/ ExecInit

ProcessNext == StartupNext \/ ExecNext

ProcessSpec == ProcessInit /\ [][ProcessNext]_vars

---------------------------------------------------------------------------
(* ExecuteSpec: the execute method of the handler createGraphQLHandler returns *)

\* the request of execute's fetch: the init object names the method and the
\* body and no headers
ExecuteRequest(query, variables) == Request(NoHeaders, NoHeaders, query, variables)

\* execute does not parse the query: any text is sent
ExecuteTexts == TextsOf(1)

\* the promise of execute resolves with the value
Resolved(value) == [kind |-> "resolved", value |-> value]

\* the promise of execute rejects with the error
Rejected(error) == [kind |-> "rejected", error |-> error]

\* a call of result.json() on the response: reads are the calls made
\* before.  The first call consumes the body, whether it parses or not; a
\* call on a consumed body rejects with a TypeError
json(response, reads) ==
    IF reads # <<>> THEN "TypeError"
    ELSE IF IsJSON(response.body) THEN "parsed"
    ELSE "SyntaxError"

\* the call of execute(query, variables) at the fetch it awaits; logs tells
\* whether this execute logs the parsed body before it returns
ExecuteCall(logs, query, variables) ==
    [handler |-> "execute", pc |-> "fetch", logs |-> logs,
     query |-> query, variables |-> variables,
     headers |-> NoHeaders, response |-> NoResponse, reads |-> <<>>]

\* execute of the handler, which logs the body and the parsed result, up
\* to its fetch
Execute ==
    /\ handler = [state |-> "ready", cursor |-> 0]
    /\ call.pc = "idle"
    /\ \E query \in ExecuteTexts, variables \in Variables :
          /\ call' = ExecuteCall(TRUE, query, variables)
          /\ outbound' = <<ExecuteRequest(query, variables)>>
          /\ result' = NoResult
    /\ UNCHANGED <<schema, config, mapperVars, registryVars, loader>>

\* execute of the earlier handler, which logs nothing, up to its fetch
ExecuteEarlier ==
    /\ handler = [state |-> "ready", cursor |-> 0]
    /\ call.pc = "idle"
    /\ \E query \in ExecuteTexts, variables \in Variables :
          /\ call' = ExecuteCall(FALSE, query, variables)
          /\ outbound' = <<ExecuteRequest(query, variables)>>
          /\ result' = NoResult
    /\ UNCHANGED <<schema, config, mapperVars, registryVars, loader>>

\* fetch settles: a network failure rejects execute, a response takes it
\* to its next await
ExecuteFetchSettle ==
    /\ call.handler = "execute"
    /\ call.pc = "fetch"
    /\ \E response \in Responses \cup {NetworkFailure} :
          IF response = NetworkFailure
          THEN /\ call' = [call EXCEPT !.pc = "done", !.response = response]
               /\ result' = Rejected("fetch failed")
          ELSE /\ call' = [call EXCEPT !.pc = IF call.logs THEN "log" ELSE "return",
                                       !.response = response]
               /\ result' = result
    /\ UNCHANGED <<schema, config, mapperVars, registryVars, outbound, loader>>

\* console.error("result", await result.json())
ExecuteLog ==
    /\ call.handler = "execute"
    /\ call.pc = "log"
    /\ LET read == json(call.response, call.reads)
       IN /\ call' = [call EXCEPT !.reads = Append(@, read),
                                  !.pc = IF read = "parsed" THEN "return" ELSE "done"]
          /\ result' = IF read = "parsed" THEN result ELSE Rejected(read)
    /\ UNCHANGED <<schema, config, mapperVars, registryVars, outbound, loader>>

\* return { status: "success", data: await result.json() }
ExecuteReturn ==
    /\ call.handler = "execute"
    /\ call.pc = "return"
    /\ LET read == json(call.response, call.reads)
       IN /\ call' = [call EXCEPT !.reads = Append(@, read), !.pc = "done"]
          /\ result' = IF read = "parsed"
                        THEN Resolved([status |-> "success",
                                       data |-> call.response.body])
                        ELSE Rejected(read)
    /\ UNCHANGED <<schema, config, mapperVars, registryVars, outbound, loader>>

\* the handler is created for a schema with or without root fields
ExecuteInit ==
    /\ \E q \in {<<>>, <<"X">>, <<"X", "Y">>} :
          schema = [query |-> RootFields(q), mutation |-> <<>>,
                    types |-> PlainTypeMap]
    /\ \E am \in BOOLEAN :
          config = [allowMutations |-> am, excludeQueries |-> <<>>,
                    excludeMutations |-> <<>>]
    /\ argument = NoArgument
    /\ zodField = Pending
    /\ RegistryIdle
    /\ ExecIdle

ExecuteNext ==
    \/ CreateGraphQLHandler
    \/ Execute
    \/ ExecuteEarlier
    \/ ExecuteFetchSettle
    \/ ExecuteLog
    \/ ExecuteReturn
    \/ Return

ExecuteSpec == ExecuteInit /\ [][ExecuteNext]_vars

---------------------------------------------------------------------------
(* Properties of the type mapper (MapperSpec) *)

\* the greatest number of object nodes on a path from the root of a zod
\* schema to a leaf
RECURSIVE ObjectDepth(_)
ObjectDepth(node) ==
    IF node.kind = "object"
    THEN 1 + (LET ds == {ObjectDepth(node.shape[n]) : n \in DOMAIN node.shape}
              IN IF ds = {} THEN 0 ELSE CHOOSE d \in ds : \A e \in ds : e <= d)
    ELSE IF node.kind = "array" THEN ObjectDepth(node.element)
    ELSE IF node.kind \in {"optional", "default"} THEN ObjectDepth(node.inner)
    ELSE 0

\* C1: for every input type, self-referential input objects included
\* (whatever non-null and list wrappers the reference is written with), the
\* call of argumentToZodSchema terminates: it returns a schema node and does
\* not recurse without end.
C1_MapperTerminates ==
    zodField # Pending => zodField # RangeError

\* C2: the depth budget starts at 3 and only a descent into an input
\* object's fields spends it, so no mapped tree holds more than 3 nested
\* object nodes on a path from its root to a leaf.
C2_AtMostThreeNestedObjects ==
    (zodField # Pending /\ zodField # RangeError)
        => ObjectDepth(zodField) <= DefaultMaxDepth

\* the node the claim names for a scalar of the name
NodeOfScalar(name) ==
    CASE name \in {"String", "ID"} -> "string"
      [] name = "Int" -> "int"
      [] name = "Float" -> "number"
      [] name = "Boolean" -> "boolean"
      [] OTHER -> "string"

\* the call has returned a schema
Mapped == zodField # Pending /\ zodField # RangeError

\* C17: the mapper, called on a scalar type with a positive depth budget,
\* returns String for String and ID, Int for Int, Float for Float, Boolean
\* for Boolean and String for any other scalar name; so does the switch of
\* the earlier mapper.
C17_ScalarMapping ==
    (Mapped /\ isScalarType(argument.type)) =>
        /\ zodField = [kind |-> NodeOfScalar(argument.type.name)]
        /\ \A maxDepth \in 1..DefaultMaxDepth :
              convertToZodSchema(argument.type, maxDepth, <<>>).kind
                  = NodeOfScalar(argument.type.name)
        /\ namedTypeToZodSchema(argument.type.name).kind
              = NodeOfScalar(argument.type.name)

C17_Witness ==
    /\ argument.type = Scalar("DateTime")
    /\ zodField = ZString

\* whether each object node of the mapped tree marks its fields as the
\* declared types say: node is what the mapper returned for type
RECURSIVE OptionalityAgrees(_, _)
OptionalityAgrees(type, node) ==
    IF isNonNullType(type) THEN OptionalityAgrees(type.ofType, node)
    ELSE IF isListType(type)
    THEN node.kind = "array" => OptionalityAgrees(type.ofType, node.element)
    ELSE IF isInputObjectType(type)
    THEN IF node.kind = "optional" THEN OptionalityAgrees(type, node.inner)
         ELSE node.kind = "object" =>
                \A i \in DOMAIN getFields(type) :
                    LET field == getFields(type)[i]
                        fieldNode == node.shape[field.name]
                    IN /\ (fieldNode.kind = "optional") <=> ~isNonNullType(field.type)
                       /\ OptionalityAgrees(field.type,
                                            IF fieldNode.kind = "optional"
                                            THEN fieldNode.inner ELSE fieldNode)
    ELSE TRUE

\* C18: in every object node the mapper produces, a field is optional iff
\* its declared type is not wrapped in non-null and required iff it is,
\* whether the field is a scalar, a list or an input object.
C18_FieldOptionality ==
    Mapped => OptionalityAgrees(argument.type, zodField)

\* C19: the node argumentToZodSchema returns for an argument that declares
\* a default value carries that default value, and the node of an argument
\* without a default carries none.
C19_DefaultIsAttached ==
    Mapped =>
        /\ argument.defaultValue # Undefined
              => (zodField.kind = "default" /\ zodField.value = argument.defaultValue)
        /\ argument.defaultValue = Undefined => zodField.kind # "default"

\* the type of the argument after its non-null wrappers are removed
RECURSIVE NullableType(_)
NullableType(type) ==
    IF isNonNullType(type) THEN NullableType(type.ofType) ELSE type

\* the slot of the argument in the variables object of the parameter
\* schema built for an operation that declares this argument alone
VariablesSlot ==
    buildZodSchemaFromVariables(<<argument>>).shape.variables.shape[argument.name]

\* a slot of an object that a caller may leave out
IsOptionalSlot(node) == node.kind \in {"optional", "default"}

\* C21: the slot of a top-level argument in the variables object is
\* required when the argument's type, its non-null wrappers removed, is a
\* scalar or a list, also when GraphQL declares the argument nullable, and
\* optional when that type is an input object, also when GraphQL declares
\* the argument non-null.
C21_RootOptionalityFollowsShape ==
    Mapped =>
        LET type == NullableType(argument.type)
        IN /\ VariablesSlot = zodField
           /\ (isScalarType(type) \/ isListType(type)) => ~IsOptionalSlot(VariablesSlot)
           /\ isInputObjectType(type) => IsOptionalSlot(VariablesSlot)

C21_Witness ==
    /\ Mapped
    /\ argument.type = NonNull(InputObject(TypeName(1)))
    /\ zodField.kind = "optional"
    /\ zodField.inner.kind = "object"

---------------------------------------------------------------------------
(* Properties of the registry (RegistrySpec) *)

Ready == handler = [state |-> "ready", cursor |-> 0]

FieldNames(fields) == {fields[i].name : i \in DOMAIN fields}

\* C3: exclusion is kind-scoped: in the built registry a query operation is
\* absent iff its name is in excludeQueries, and (mutations allowed) a
\* mutation operation is absent iff its name is in excludeMutations.
C3_ExclusionIsKindScoped ==
    Ready =>
        /\ \A n \in FieldNames(schema.query) :
              MapHas(tools.entries, "query-" \o n)
                  <=> ~includes(config.excludeQueries, n)
        /\ config.allowMutations =>
              \A n \in FieldNames(schema.mutation) :
                  MapHas(tools.entries, "mutation-" \o n)
                      <=> ~includes(config.excludeMutations, n)

\* C4: with allowMutations false the registry never holds a key that starts
\* with "mutation-": not during or after the initial build, not after any
\* reload, whatever the Mutation type and the exclusion lists hold.
C4_NoMutationToolWhenGated ==
    ~config.allowMutations =>
        \A k \in MapKeys(tools.entries) : ~startsWith(k, "mutation-")

C4_Witness ==
    /\ Ready
    /\ ~config.allowMutations
    /\ reloads >= 1
    /\ schema.mutation # <<>>
    /\ config.excludeMutations = <<>>
    /\ tools.entries # <<>>

\* the operations that loadTools hands to operationToTool
Synthesized ==
    LET operations == getOperations(schema, AllowedOperations)
    IN {operations[i] : i \in {j \in DOMAIN operations : ~Excluded(operations[j])}}

\* C8: every key of the registry is the name of the tool it maps to, that
\* name is "<kind>-<operationName>" of an operation of the schema of that
\* kind, and after a build every synthesized operation is found under its
\* own key: a query and a mutation of the same name do not overwrite each
\* other.
C8_KeyIsKindAndName ==
    /\ \A i \in DOMAIN tools.entries :
          LET e == tools.entries[i] IN
          /\ e.key = e.value.name
          /\ \/ \E n \in FieldNames(schema.query) :
                   /\ e.key = "query-" \o n
                   /\ e.value.description.operation = "query"
                   /\ e.value.description.name = n
             \/ \E n \in FieldNames(schema.mutation) :
                   /\ e.key = "mutation-" \o n
                   /\ e.value.description.operation = "mutation"
                   /\ e.value.description.name = n
    /\ Ready =>
          /\ Len(tools.entries) = Cardinality(Synthesized)
          /\ \A op \in Synthesized :
                /\ MapHas(tools.entries, ToolName(op))
                /\ MapGet(tools.entries, ToolName(op)).description = op.description

C8_Witness ==
    /\ Ready
    /\ MapHas(tools.entries, "query-X")
    /\ MapHas(tools.entries, "mutation-X")
    /\ MapGet(tools.entries, "query-X").ref # MapGet(tools.entries, "mutation-X").ref

\* the names of a map's tools, in the order of its entries
ToolNames(entries) == [i \in DOMAIN entries |-> entries[i].value.name]

\* a build from scratch on the schema and config as they are
FreshBuild ==
    LET operations == getOperations(schema, AllowedOperations)
    IN LoadLoop(operations, 0, Len(operations), <<>>, 1, 0).entries

\* C9: builds are idempotent: after the build and after any number of
\* reloads the registry holds the tool names of a build from scratch on the
\* same schema and config, which are those the first build listed: no name
\* added, lost or duplicated.
C9_SameNamesAfterReload ==
    Ready =>
        /\ ToolNames(tools.entries) = ToolNames(FreshBuild)
        /\ Cardinality(MapKeys(tools.entries)) = Len(tools.entries)
        /\ snapshot # <<>> =>
              [i \in DOMAIN snapshot[1].tools |-> snapshot[1].tools[i].name]
                  = ToolNames(tools.entries)

C9_Witness ==
    /\ Ready
    /\ reloads = MaxReloads
    /\ snapshot # <<>>
    /\ Len(tools.entries) >= 3

ArgumentsOfTool(tool) ==
    LET fields == IF tool.description.operation = "query"
                  THEN schema.query ELSE schema.mutation
    IN fields[CHOOSE i \in DOMAIN fields : fields[i].name = tool.description.name].args

\* C20: the parameter schema of every synthesized tool is an object with
\* the required string slot query and the object slot variables, whose keys
\* are exactly the names of the operation's declared arguments (one entry
\* per argument), each holding what the type mapper returns for the
\* argument's type.
C20_ParameterSchemaShape ==
    \A i \in DOMAIN tools.entries :
        LET tool == tools.entries[i].value
            args == ArgumentsOfTool(tool)
            parameters == tool.parameters
        IN /\ parameters.kind = "object"
           /\ DOMAIN parameters.shape = {"query", "variables"}
           /\ parameters.shape.query = ZString
           /\ parameters.shape.variables.kind = "object"
           /\ DOMAIN parameters.shape.variables.shape
                 = {args[j].name : j \in DOMAIN args}
           /\ Cardinality(DOMAIN parameters.shape.variables.shape) = Len(args)
           /\ \A j \in DOMAIN args :
                 parameters.shape.variables.shape[args[j].name]
                     = convertToZodSchema(args[j].type, DefaultMaxDepth, <<>>)

C20_Witness ==
    /\ Ready
    /\ MapHas(tools.entries, "query-Y")
    /\ MapHas(tools.entries, "mutation-X")
    /\ DOMAIN MapGet(tools.entries, "query-Y").parameters.shape.variables.shape
          = {"filter", "limit"}
    /\ MapGet(tools.entries, "mutation-X").parameters.shape.variables.shape
          = [id |-> ZString]

---------------------------------------------------------------------------
(* Properties of the execution path (ExecSpec) *)

\* whether the text parses and its document holds a mutation operation
ContainsMutation(query) ==
    LET document == parse(query) IN
    /\ document.ok
    /\ [kind |-> "OperationDefinition", operation |-> "mutation"]
          \in Range(document.definitions)

\* C5: with allowMutations false, a call of the query-graphql tool whose
\* query parses to a document with a mutation operation sends no request
\* and returns the mutations-disabled error; the rejection is decided by
\* the parsed operation kind and the flag alone.
C5_MutationGateOnExecution ==
    call.handler = "query-graphql" =>
        /\ (ContainsMutation(call.query) /\ ~config.allowMutations)
              => /\ outbound = <<>>
                 /\ call.pc = "done"
                 /\ result = ToolResult("mutationsDisabled", TRUE)
        /\ result.kind = "mutationsDisabled"
              => (ContainsMutation(call.query) /\ ~config.allowMutations)

C5_Witness ==
    /\ call.handler = "query-graphql"
    /\ call.pc = "done"
    /\ result = ToolResult("mutationsDisabled", TRUE)
    /\ Len(parse(call.query).definitions) = 2
    /\ parse(call.query).definitions[1].operation = "query"
    /\ outbound = <<>>

\* C6: a query text that does not parse makes the call return the
\* invalid-query error and no request is sent for it, in both handlers.
C6_SyntaxErrorSendsNothing ==
    (call.handler # "none" /\ ~parse(call.query).ok) =>
        /\ outbound = <<>>
        /\ call.pc = "done"
        /\ result = ToolResult("invalidQuery", TRUE)

C6_Witness ==
    /\ call.handler = "query-graphql"
    /\ call.query = <<"{", "f">>
    /\ call.pc = "done"
    /\ result = ToolResult("invalidQuery", TRUE)
    /\ outbound = <<>>

\* the call is over and fetch had resolved with a response
GotResponse ==
    /\ call.handler = "query-graphql"
    /\ call.pc = "done"
    /\ outbound # <<>>
    /\ call.response # NetworkFailure

\* C7 as claimed: a permitted call that receives a response ends in exactly
\* one of transport error (status not a success), GraphQL response error
\* (success status, non-empty errors array) and success (success status,
\* any other errors), and these cover every response.
C7_ThreeOutcomes ==
    GotResponse =>
        /\ result.kind \in {"transportError", "graphqlErrors", "success"}
        /\ result.kind = "transportError" <=> ~Ok(call.response)
        /\ result.kind = "graphqlErrors"
              <=> (Ok(call.response) /\ call.response.body.errors = "oneError")
        /\ result.kind = "success"
              <=> (Ok(call.response) /\ call.response.body.errors # "oneError")

\* a body that response.json() resolves with and whose members can be read
ReadableBody(body) == body.kind \in {"object", "string"}

\* C7 as amended: a permitted call that receives a response ends in exactly
\* one of four ways: transport error when the status is not a success;
\* with a success status, the handler throws when the body is not JSON or
\* is null, returns the GraphQL response error when the body's errors is a
\* non-empty array, and returns success with the payload otherwise.
C7_FourOutcomes ==
    GotResponse =>
        /\ result.kind \in {"transportError", "graphqlErrors", "success", "thrown"}
        /\ result.kind = "transportError" <=> ~Ok(call.response)
        /\ result.kind = "thrown"
              <=> (Ok(call.response) /\ ~ReadableBody(call.response.body))
        /\ result.kind = "graphqlErrors"
              <=> (Ok(call.response) /\ ReadableBody(call.response.body)
                     /\ call.response.body.errors = "oneError")
        /\ result.kind = "success"
              <=> (Ok(call.response) /\ ReadableBody(call.response.body)
                     /\ call.response.body.errors # "oneError")
        /\ result.isError <=> result.kind \in {"transportError", "graphqlErrors"}

C7_Witness ==
    /\ GotResponse
    /\ call.response.status = 201
    /\ call.response.body = [kind |-> "object", errors |-> "oneError"]
    /\ result = ToolResult("graphqlErrors", TRUE)

\* the headers the handler spreads into the request's: the configured
\* ones (env.HEADERS) in the query-graphql tool, those the caller passed
\* with the call in the CallToolRequestSchema handler
SuppliedHeaders ==
    IF call.handler = "query-graphql" THEN config.headers ELSE call.headers

\* the name the handler writes the content type under
ContentTypeName ==
    IF call.handler = "query-graphql" THEN "Content-Type" ELSE "content-type"

SyntaxFailure == ~parse(call.query).ok

GateFailure ==
    /\ call.handler = "query-graphql"
    /\ ContainsMutation(call.query)
    /\ ~config.allowMutations

StatusFailure ==
    /\ outbound # <<>>
    /\ call.response # NetworkFailure
    /\ call.response.status \in 400..599

ErrorsFailure ==
    /\ outbound # <<>>
    /\ call.response # NetworkFailure
    /\ call.response.status \in 200..299
    /\ call.response.body.errors = "oneError"

RequestFailure ==
    /\ outbound # <<>>
    /\ call.response = NetworkFailure

CallOver == call.handler # "none" /\ call.pc = "done"

\* C16 as claimed: every per-call failure (query syntax error, mutations
\* disabled, status not a success, GraphQL errors in the response, network
\* failure of the request) is returned as an error result with isError set,
\* and none is thrown out of the call handler.
C16_FailuresAreReturned ==
    (CallOver /\ (SyntaxFailure \/ GateFailure \/ StatusFailure \/ ErrorsFailure
                    \/ RequestFailure))
        => (result.isError /\ result # Thrown)

\* C16 as amended: a query syntax error, disabled mutations and GraphQL
\* errors in the response are returned as an error result with isError set,
\* and so is a status that is not a success in the query-graphql tool; a
\* network failure of the request is caught and thrown again out of the
\* handler, and so is a status that is not a success in the
\* CallToolRequestSchema handler.
C16_FailuresReturnedOrRethrown ==
    CallOver =>
        /\ SyntaxFailure => result = ToolResult("invalidQuery", TRUE)
        /\ GateFailure => result = ToolResult("mutationsDisabled", TRUE)
        /\ ErrorsFailure => result = ToolResult("graphqlErrors", TRUE)
        /\ StatusFailure =>
              result = IF call.handler = "query-graphql"
                       THEN ToolResult("transportError", TRUE)
                       ELSE Thrown
        /\ RequestFailure => result = Thrown

C16_Witness ==
    /\ CallOver
    /\ call.handler = "query-graphql"
    /\ RequestFailure
    /\ result = Thrown

---------------------------------------------------------------------------
(* Properties of the schema source and of startup (StartupSpec, ProcessSpec) *)

\* the text response.text() resolves with
BodyText(body) == body.kind \o ":" \o body.errors \o ":" \o body.data.kind

\* whether the error's message holds the value
Carries(error, value) ==
    error.kind = "Error" /\ \E i \in DOMAIN error.parts : error.parts[i].value = value

\* the loader has taken in what its source gave it
Settled(source) ==
    /\ loader.source = source
    /\ loader.pc \in {"writeFile", "done"}

\* the introspection fetch resolved with a status that is not a success
NonSuccessStatus ==
    /\ Settled("endpoint")
    /\ loader.input # NetworkFailure
    /\ ~(loader.input.status \in 200..299)

\* C11 as claimed: when the introspection endpoint answers with a status
\* that is not a success, the load fails with an error that carries the
\* response's status text and the response's body.
C11_ErrorCarriesStatusTextAndBody ==
    NonSuccessStatus =>
        /\ Carries(loader.error, loader.input.statusText)
        /\ Carries(loader.error, BodyText(loader.input.body))

\* C11 as amended: when the introspection endpoint answers with a status
\* that is not a success, the load fails with the error "Failed to fetch
\* GraphQL schema: <status text>": it carries the response's status text and
\* nothing of the response's body, which is not read.
C11_ErrorCarriesStatusText ==
    NonSuccessStatus =>
        /\ handler = Failed
        /\ loader.error =
              LoadError("Error", "Failed to fetch GraphQL schema: ",
                        << [part |-> "statusText",
                            value |-> StatusText(loader.input.status)] >>)
        /\ ~Carries(loader.error, BodyText(loader.input.body))

C11_Witness ==
    /\ NonSuccessStatus
    /\ loader.input.status = 500
    /\ loader.input.body.kind = "object"
    /\ loader.input.body.data.kind = "schema"
    /\ loader.error.kind = "Error"
    /\ handler = Failed

\* what the source gave is not a schema: a status that is not a success, a
\* body with an errors array, a body without the data.__schema payload, a
\* file that does not parse
BadSource ==
    \/ /\ Settled("endpoint")
       /\ loader.input # NetworkFailure
       /\ \/ ~(loader.input.status \in 200..299)
          \/ loader.input.body.errors \in {"emptyArray", "oneError"}
          \/ loader.input.body.data.kind \in {"absent", "null", "empty"}
    \/ /\ Settled("file")
       /\ loader.input.kind \in {"malformed", "empty"}

LoadFailed == loader.error.kind = "Error"

\* C12: a schema load that fails (status not a success, errors array in the
\* body, no data.__schema payload, unparsable file, or any other error)
\* aborts startup: createGraphQLHandler returns no handler, no schema is
\* installed, no tool is put in a registry, and no tool list, empty or
\* partial, is ever served.
C12_LoadFailureAbortsStartup ==
    /\ BadSource => LoadFailed
    /\ LoadFailed =>
          /\ handler = Failed
          /\ schema = EmptySchema
          /\ tools = NoTools
          /\ snapshot = <<>>
          /\ observed.via = "none"
    /\ observed.via # "none" =>
          /\ loader.pc = "done"
          /\ ~LoadFailed
          /\ Len(tools.entries) = Len(FreshBuild)

C12_Witness ==
    /\ Settled("endpoint")
    /\ loader.input # NetworkFailure
    /\ loader.input.status = 200
    /\ loader.input.body.errors = "emptyArray"
    /\ loader.input.body.data.kind = "schema"
    /\ loader.input.body.data.schema.query # <<>>
    /\ LoadFailed
    /\ handler = Failed

\* a local schema path is configured (the empty string is no path)
PathConfigured == config.schemaPath \notin {Undefined, ""}

\* C13: each schema load uses exactly one source.  With a schema path
\* configured the one I/O of the load is the read of that file: no request
\* is sent, although an endpoint is configured too.  Without a path the
\* load sends the introspection request to the endpoint and reads no file.
\* The schema the handler builds its tools from is the one that source gave.
C13_OneSchemaSource ==
    loader.pc # "start" =>
        /\ PathConfigured =>
              /\ loader.source = "file"
              /\ loader.reads = <<config.schemaPath>>
              /\ outbound = <<>>
              /\ loader.writes = <<>>
              /\ handler.state \in {"starting", "ready"}
                    => schema = loader.input.schema
        /\ ~PathConfigured =>
              /\ loader.source = "endpoint"
              /\ loader.reads = <<>>
              /\ Len(outbound) = 1
              /\ outbound[1].url = config.endpoint
              /\ outbound[1].body = [query |-> "getIntrospectionQuery()"]
              /\ handler.state \in {"starting", "ready"}
                    => schema = loader.input.body.data.schema

C13_Witness ==
    /\ PathConfigured
    /\ config.endpoint = Endpoint
    /\ loader.source = "file"
    /\ loader.input.kind = "sdl"
    /\ Ready
    /\ tools.entries # <<>>
    /\ outbound = <<>>

\* the call's request failed: a network fault, a status that is not a
\* success, or GraphQL errors in the response
FailedRequest ==
    /\ call.pc = "done"
    /\ \/ call.response = NetworkFailure
       \/ call.response.status \in 400..599
       \/ call.response.body.errors = "oneError"

\* C14: at most once, no retries.  A schema load from the endpoint issues
\* exactly one introspection request and a load from a file none; a tool
\* call issues one POST at most; a request that failed (status not a
\* success, GraphQL errors, network fault) is not sent again.
C14_AtMostOnce ==
    /\ Len(outbound) <= 1
    /\ (loader.pc \notin {"none", "start"} /\ loader.source = "endpoint")
          => outbound = << IntrospectionRequest(config.endpoint, config.headers) >>
    /\ (loader.pc \notin {"none", "start"} /\ loader.source = "file")
          => outbound = <<>>
    /\ (Settled("endpoint") /\ LoadFailed) => Len(outbound) = 1
    /\ (call.handler # "none" /\ FailedRequest) => Len(outbound) = 1

C14_Witness ==
    /\ Settled("endpoint")
    /\ loader.input = NetworkFailure
    /\ LoadFailed
    /\ Len(outbound) = 1

---------------------------------------------------------------------------
(* Properties of the handler's execute method (ExecuteSpec) *)

\* a call of execute that got a response is over
Executed ==
    /\ call.handler = "execute"
    /\ call.pc = "done"
    /\ call.response # NetworkFailure

\* C22: a call of handler.execute consumes the body of the response it
\* got exactly once, and a call that got a response with a JSON body
\* resolves with {status: "success", data: the parsed body}; it does not
\* reject.
C22_BodyReadOnceAndResolved ==
    Executed =>
        /\ Len(call.reads) = 1
        /\ IsJSON(call.response.body) =>
              result = Resolved([status |-> "success", data |-> call.response.body])

===========================================================================
